---- MODULE Spec2Model ----
(***************************************************************************)
(* Beam calculator (src/src/App.jsx): the finite-element core              *)
(* (assembleBeamModel, solveLinearSystem, buildDiagram, findExtrema) and   *)
(* the input handling of App as a state machine.                           *)
(*                                                                         *)
(* Numbers.  JavaScript numbers are modelled in exact arithmetic.  A value *)
(* is a polynomial in 1/PIVOT_EPS with rational coefficients, written as   *)
(* the sequence of its coefficients <<c0, c1, ...>>, each coefficient a    *)
(* reduced fraction <<n, d>> with d > 0.  PIVOT_EPS is the literal 1e-12   *)
(* of solveLinearSystem (line 46); 10^12 exceeds the 32-bit integers of    *)
(* TLC, so it is kept as a symbol: dividing by it raises the degree.       *)
(* Every value that never met the substituted pivot is a plain rational    *)
(* (degree 0).  The rows at or below the current column never meet it      *)
(* (their factor in a singular column is 0), so every selected pivot is a  *)
(* plain rational and the comparison of magnitudes is exact.               *)
(*                                                                         *)
(* Units.  Positions are integers of 0..span; E = 1 and a 12 x 1 section   *)
(* give E.I = 1: the stiffness scales the displacements only.  Records     *)
(* carry the fields the core reads (the id of a support or load is not     *)
(* read by it).  Array indices and DOF numbers are 0-based as in the       *)
(* source; sequences are 1-based, hence the "+ 1" where one is indexed.    *)
(*                                                                         *)
(* Specifications.  Spec runs assembleBeamModel (with the solver it calls) *)
(* on every input of the bounded domain; SpecLoads runs its load-vector    *)
(* part (lines 73-125) on a domain with more loads; SpecSolve runs         *)
(* solveLinearSystem on arbitrary small systems; SpecExtrema runs          *)
(* findExtrema; SpecDiagram runs assembleBeamModel and then buildDiagram   *)
(* on its results; SpecApp runs the event handlers of App from its initial *)
(* state, each followed by the render that normalizes the lists and hands  *)
(* them to assembleBeamModel.  In SpecApp the lengths are exact numbers    *)
(* (addPointLoad halves the span) and keep the defaults of the source; an  *)
(* item is found by its id, as in the handlers.  The source contains no    *)
(* throw: `thrown` is never set.                                           *)
(***************************************************************************)
EXTENDS Integers, Sequences, FiniteSets, TLC

\* ------------------------------------------------------------------ bounds
MaxSpan == 2
MaxSupports == 2
MaxPointLoads == 1
MaxUdls == 1
MaxLoad == 1
MaxSize == 3
MaxEntry == 1
MaxLen == 2
MaxVal == 1
MaxSample == 2
MaxEdits == 3

\* --------------------------------------------------------- rational numbers
AbsInt(n) == IF n < 0 THEN -n ELSE n

RECURSIVE Gcd(_, _)
Gcd(m, n) == IF n = 0 THEN m ELSE Gcd(n, m % n)

Frac(n, d) ==
  IF n = 0 THEN <<0, 1>>
  ELSE LET s == IF d < 0 THEN -1 ELSE 1
           g == Gcd(AbsInt(n), AbsInt(d))
       IN  <<(s * n) \div g, (s * d) \div g>>

QZero == <<0, 1>>
QAdd(p, q) == IF p[1] = 0 THEN q ELSE IF q[1] = 0 THEN p
              ELSE Frac(p[1] * q[2] + q[1] * p[2], p[2] * q[2])
QNeg(p) == <<-p[1], p[2]>>
QMul(p, q) == IF p[1] = 0 \/ q[1] = 0 THEN QZero
              ELSE Frac(p[1] * q[1], p[2] * q[2])
QDiv(p, q) == IF p[1] = 0 THEN QZero ELSE Frac(p[1] * q[2], p[2] * q[1])

\* ------------------------------------------- numbers (polynomials in 1/eps)
Zero == <<(<<0, 1>>)>>
One == <<(<<1, 1>>)>>
Num(n) == <<(<<n, 1>>)>>
Rat(n, d) == <<Frac(n, d)>>

RECURSIVE Trim(_)
Trim(p) == IF Len(p) > 1 /\ p[Len(p)] = QZero
           THEN Trim(SubSeq(p, 1, Len(p) - 1)) ELSE p

Coef(p, k) == IF k <= Len(p) THEN p[k] ELSE QZero
MaxOf(m, n) == IF m > n THEN m ELSE n

\* SubSeq turns a function over 1..n into a plain sequence
Neg(p) == SubSeq([k \in 1..Len(p) |-> QNeg(p[k])], 1, Len(p))
Add(p, q) ==
  IF q = Zero THEN p
  ELSE IF p = Zero THEN q
  ELSE IF Len(p) = 1 /\ Len(q) = 1 THEN <<QAdd(p[1], q[1])>>
  ELSE LET n == MaxOf(Len(p), Len(q))
       IN  Trim(SubSeq([k \in 1..n |-> QAdd(Coef(p, k), Coef(q, k))], 1, n))
Sub(p, q) == IF q = Zero THEN p ELSE Add(p, Neg(q))

RECURSIVE QSum(_, _, _)
\* sum of p[i] * q[k + 1 - i] for i = lo..k: coefficient k of a product
QSum(p, q, ik) ==
  LET i == ik[1]  k == ik[2] IN
  IF i > k THEN QZero
  ELSE QAdd(QMul(Coef(p, i), Coef(q, k + 1 - i)), QSum(p, q, <<i + 1, k>>))

Mul(p, q) ==
  IF p = Zero \/ q = Zero THEN Zero
  ELSE IF Len(p) = 1 /\ Len(q) = 1 THEN <<QMul(p[1], q[1])>>
  ELSE LET n == Len(p) + Len(q) - 1
       IN  Trim(SubSeq([k \in 1..n |-> QSum(p, q, <<1, k>>)], 1, n))

IsZero(p) == p = Zero
Sign(p) == LET n == p[Len(p)][1] IN IF n > 0 THEN 1 ELSE IF n < 0 THEN -1 ELSE 0
Abs(p) == IF Sign(p) < 0 THEN Neg(p) ELSE p
Greater(p, q) == Sign(Sub(p, q)) > 0

\* p / q for a plain rational q # 0
DivScalar(p, q) == SubSeq([k \in 1..Len(p) |-> QDiv(p[k], q[1])], 1, Len(p))
\* p / 1e-12
DivEps(p) == IF IsZero(p) THEN Zero ELSE <<QZero>> \o p

\* ------------------------------------------------------------------- state
VARIABLES
  pc,                 \* position in the running function
  ret,                \* where solveLinearSystem returns to
  span, E, I, supports, pointLoads, udls,      \* arguments of assembleBeamModel
  nodePositions, K, F, e,                      \* mesh, global system, element loop
  freeDofs, fixedDofs,                         \* partition of the DOFs
  matrix, vector,                              \* arguments of solveLinearSystem
  a, b, col, pivot,                            \* its working copies, column i, last a[i][i]
  freeDisplacements, displacements, reactions, \* results
  thrown,                                      \* error raised to the caller
  data, key, idx, acc,                         \* findExtrema: series, key, scan
  sample, results,                             \* buildDiagram: samples per element, diagram
  state, edits                                 \* App: the useState values, edits made

vars == <<pc, ret, span, E, I, supports, pointLoads, udls, nodePositions, K, F,
          e, freeDofs, fixedDofs, matrix, vector, a, b, col, pivot,
          freeDisplacements,
          displacements, reactions, thrown, data, key, idx, acc,
          sample, results, state, edits>>

inputVars == <<span, E, I, supports, pointLoads, udls>>
modelVars == <<nodePositions, K, F, e, freeDofs, fixedDofs>>
solverVars == <<a, b, col, pivot>>
resultVars == <<displacements, reactions>>
extremaVars == <<data, key, idx, acc>>
diagramVars == <<sample, results>>
appVars == <<state, edits>>

\* --------------------------------------------------------- solveLinearSystem
RECURSIVE ScanMaxRow_Signed(_, _, _, _)
\* the scan comparing the entries themselves, not their absolute values
ScanMaxRow_Signed(m, i, k, maxRow) ==
  IF k >= Len(m) THEN maxRow
  ELSE ScanMaxRow_Signed(m, i, k + 1,
         IF Greater(m[k + 1][i + 1], m[maxRow + 1][i + 1]) THEN k ELSE maxRow)

RECURSIVE ScanMaxRow(_, _, _, _)
\* lines 35-40: the row k in i..size-1 with the largest |a[k][i]|, the first on ties
ScanMaxRow(m, i, k, maxRow) ==
  IF k >= Len(m) THEN maxRow
  ELSE ScanMaxRow(m, i, k + 1,
         IF Greater(Abs(m[k + 1][i + 1]), Abs(m[maxRow + 1][i + 1]))
         THEN k ELSE maxRow)

SwapRows(m, i, r) ==
  [k \in 1..Len(m) |-> IF k = i + 1 THEN m[r + 1]
                       ELSE IF k = r + 1 THEN m[i + 1] ELSE m[k]]

\* None: no pivot selected yet
None == <<>>

\* lines 46-50: x / (a[i][i] || 1e-12), for the selected entry sel = a[i][i]
DivPivot(x, sel) == IF IsZero(sel) THEN DivEps(x) ELSE DivScalar(x, sel)

\* lines 34-60: one pass of the outer loop, for column i
EliminateColumn(m, v, i) ==
  LET size == Len(v)
      maxRow == ScanMaxRow(m, i, i + 1, i)
      m1 == IF maxRow # i THEN SwapRows(m, i, maxRow) ELSE m
      v1 == IF maxRow # i THEN SwapRows(v, i, maxRow) ELSE v
      piv == m1[i + 1][i + 1]
      rowI == SubSeq([j \in 1..size |->
                        IF j >= i + 1 THEN DivPivot(m1[i + 1][j], piv)
                        ELSE m1[i + 1][j]], 1, size)
      bI == DivPivot(v1[i + 1], piv)
  IN  [a |-> [k \in 1..size |->
                IF k = i + 1 THEN rowI
                ELSE [j \in 1..size |->
                        IF j >= i + 1
                        THEN Sub(m1[k][j], Mul(m1[k][i + 1], rowI[j]))
                        ELSE m1[k][j]]],
       b |-> [k \in 1..size |->
                IF k = i + 1 THEN bI ELSE Sub(v1[k], Mul(m1[k][i + 1], bI))],
       maxRow |-> maxRow,
       pivot |-> piv]

\* lines 29-32: entry, the working copies
SolveEnter ==
  /\ pc = "solveCall"
  /\ a' = matrix
  /\ b' = vector
  /\ col' = 0
  /\ pivot' = None
  /\ pc' = "solve"
  /\ UNCHANGED <<ret, inputVars, modelVars, matrix, vector, freeDisplacements,
                 resultVars, thrown, extremaVars, diagramVars, appVars>>

SolveColumn ==
  /\ pc = "solve"
  /\ col < Len(b)
  /\ LET r == EliminateColumn(a, b, col) IN
       /\ a' = r.a
       /\ b' = r.b
       /\ pivot' = r.pivot
  /\ col' = col + 1
  /\ UNCHANGED <<pc, ret, inputVars, modelVars, matrix, vector, freeDisplacements,
                 resultVars, thrown, extremaVars, diagramVars, appVars>>

\* line 62
SolveReturn ==
  /\ pc = "solve"
  /\ col >= Len(b)
  /\ freeDisplacements' = b
  /\ pc' = ret
  /\ UNCHANGED <<ret, inputVars, modelVars, matrix, vector, solverVars,
                 resultVars, thrown, extremaVars, diagramVars, appVars>>

\* ---------------------------------------------------------------- helpers
Range(s) == {s[k] : k \in 1..Len(s)}

RECURSIVE SortAsc(_)
\* the elements of a finite set of integers in increasing order
SortAsc(S) ==
  IF S = {} THEN <<>>
  ELSE LET m == CHOOSE x \in S : \A y \in S : x <= y
       IN  <<m>> \o SortAsc(S \ {m})

RECURSIVE InsertSorted(_, _)
InsertSorted(s, x) ==
  IF s = <<>> THEN <<x>>
  ELSE IF x <= Head(s) THEN <<x>> \o s
  ELSE <<Head(s)>> \o InsertSorted(Tail(s), x)

RECURSIVE SortKeepingDuplicates(_)
SortKeepingDuplicates(s) ==
  IF s = <<>> THEN <<>>
  ELSE InsertSorted(SortKeepingDuplicates(Tail(s)), Head(s))

\* uniqueSorted without the Set: values.map(Number).sort(...)
uniqueSorted_NoSet(values) == SortKeepingDuplicates(values)

\* lines 16-17: [...new Set(values.map(Number))].sort((a, b) => a - b)
uniqueSorted(values) == SortAsc(Range(values))

RECURSIVE Flatten(_)
Flatten(ss) == IF ss = <<>> THEN <<>> ELSE Head(ss) \o Flatten(Tail(ss))

\* Array.prototype.indexOf: the first 0-based index holding x, or -1
indexOf(s, x) ==
  IF \E k \in 1..Len(s) : s[k] = x
  THEN (CHOOSE k \in 1..Len(s) : s[k] = x /\ \A j \in 1..(k - 1) : s[j] # x) - 1
  ELSE -1

RECURSIVE SumSeq(_)
SumSeq(s) == IF s = <<>> THEN Zero ELSE Add(Head(s), SumSeq(Tail(s)))

ZeroVector(n) == [k \in 1..n |-> Zero]
ZeroMatrix(n) == [k \in 1..n |-> ZeroVector(n)]

\* line 328
buildSectionI(width, depth) == Rat(width * depth * depth * depth, 12)

\* lines 19-27
beamElementStiffness(EE, II, L) ==
  LET factor == DivScalar(Mul(EE, II), Num(L * L * L))
      c(n) == Mul(Num(n), factor)
  IN  << <<c(12), c(6 * L), c(-12), c(6 * L)>>,
         <<c(6 * L), c(4 * L * L), c(-6 * L), c(2 * L * L)>>,
         <<c(-12), c(-6 * L), c(12), c(-6 * L)>>,
         <<c(6 * L), c(2 * L * L), c(-6 * L), c(4 * L * L)>> >>

\* --------------------------------------------------------- assembleBeamModel
nodeCount == Len(nodePositions)
dofCount == nodeCount * 2

\* the list with [load.start] for each distributed load: ends are left out
MeshValues_StartsOnly(sp, sups, pls, us) ==
  <<0, sp>>
  \o [k \in 1..Len(sups) |-> sups[k].position]
  \o [k \in 1..Len(pls) |-> pls[k].position]
  \o Flatten([k \in 1..Len(us) |-> <<us[k].start>>])

\* lines 73-79: the positions handed to uniqueSorted
MeshValues(sp, sups, pls, us) ==
  <<0, sp>>
  \o [k \in 1..Len(sups) |-> sups[k].position]
  \o [k \in 1..Len(pls) |-> pls[k].position]
  \o Flatten([k \in 1..Len(us) |-> <<us[k].start, us[k].end>>])

\* lines 73-85: the mesh and the empty global system
BuildMesh ==
  /\ pc = "start"
  /\ nodePositions' = uniqueSorted(MeshValues(span, supports, pointLoads, udls))
  /\ K' = ZeroMatrix(2 * Len(nodePositions'))
  /\ F' = ZeroVector(2 * Len(nodePositions'))
  /\ e' = 0
  /\ pc' = "elements"
  /\ UNCHANGED <<ret, inputVars, freeDofs, fixedDofs, matrix, vector, solverVars,
                 freeDisplacements, resultVars, thrown, extremaVars, diagramVars, appVars>>

\* line 94
dofMap(el) == <<2 * el, 2 * el + 1, 2 * (el + 1), 2 * (el + 1) + 1>>

\* udlForElement with the reduce seeded with 1 instead of 0
udlForElement_SeedOne(loads, x1, x2) ==
  LET covering == SelectSeq(loads, LAMBDA load : load.start <= x1 /\ load.end >= x2)
  IN  Add(One, SumSeq([k \in 1..Len(covering) |-> Num(covering[k].intensity)]))

\* lines 102-104
udlForElement(loads, x1, x2) ==
  LET covering == SelectSeq(loads, LAMBDA load : load.start <= x1 /\ load.end >= x2)
  IN  SumSeq([k \in 1..Len(covering) |-> Num(covering[k].intensity)])

\* lines 108-113
eqForces(w, L) ==
  << DivScalar(Mul(w, Num(L)), Num(2)),
     DivScalar(Mul(w, Num(L * L)), Num(12)),
     DivScalar(Mul(w, Num(L)), Num(2)),
     DivScalar(Mul(Neg(w), Num(L * L)), Num(12)) >>

\* lines 96-100: K[dofMap[i]][dofMap[j]] += kLocal[i][j]
ScatterK(KK, el, kLocal) ==
  LET dm == dofMap(el)
      loc(g) == CHOOSE i \in 1..4 : dm[i] = g
      in(g) == \E i \in 1..4 : dm[i] = g
  IN  [r \in 1..Len(KK) |-> [c \in 1..Len(KK) |->
        IF in(r - 1) /\ in(c - 1)
        THEN Add(KK[r][c], kLocal[loc(r - 1)][loc(c - 1)])
        ELSE KK[r][c]]]

\* lines 114-116: F[dofMap[i]] += eqForces[i]
ScatterF(FF, el, forces) ==
  LET dm == dofMap(el)
      loc(g) == CHOOSE i \in 1..4 : dm[i] = g
      in(g) == \E i \in 1..4 : dm[i] = g
  IN  [r \in 1..Len(FF) |-> IF in(r - 1) THEN Add(FF[r], forces[loc(r - 1)])
                            ELSE FF[r]]

\* lines 87-118: one pass of the element loop
AssembleElement ==
  /\ pc = "elements"
  /\ e < nodeCount - 1
  /\ LET x1 == nodePositions[e + 1]
         x2 == nodePositions[e + 2]
         L == x2 - x1
         w == udlForElement(udls, x1, x2)
     IN  IF L <= 0
         THEN UNCHANGED <<K, F>>
         ELSE /\ K' = ScatterK(K, e, beamElementStiffness(E, I, L))
              /\ F' = IF w # Zero THEN ScatterF(F, e, eqForces(w, L)) ELSE F
  /\ e' = e + 1
  /\ UNCHANGED <<pc, ret, inputVars, nodePositions, freeDofs, fixedDofs, matrix,
                 vector, solverVars, freeDisplacements, resultVars, thrown,
                 extremaVars, diagramVars, appVars>>

RECURSIVE AddPointLoads_Overwrite(_, _, _)
\* the forEach with F[nodeIndex * 2] = load.magnitude
AddPointLoads_Overwrite(FF, loads, nodes) ==
  IF loads = <<>> THEN FF
  ELSE LET load == Head(loads)
           nodeIndex == indexOf(nodes, load.position)
           F1 == IF nodeIndex >= 0
                 THEN [FF EXCEPT ![nodeIndex * 2 + 1] = Num(load.magnitude)]
                 ELSE FF
       IN  AddPointLoads_Overwrite(F1, Tail(loads), nodes)

RECURSIVE AddPointLoads(_, _, _)
\* lines 120-125: pointLoads.forEach
AddPointLoads(FF, loads, nodes) ==
  IF loads = <<>> THEN FF
  ELSE LET load == Head(loads)
           nodeIndex == indexOf(nodes, load.position)
           F1 == IF nodeIndex >= 0
                 THEN [FF EXCEPT ![nodeIndex * 2 + 1] = Add(@, Num(load.magnitude))]
                 ELSE FF
       IN  AddPointLoads(F1, Tail(loads), nodes)

ApplyPointLoads ==
  /\ pc = "elements"
  /\ e >= nodeCount - 1
  /\ F' = AddPointLoads(F, pointLoads, nodePositions)
  /\ pc' = "supports"
  /\ UNCHANGED <<ret, inputVars, nodePositions, K, e, freeDofs, fixedDofs, matrix,
                 vector, solverVars, freeDisplacements, resultVars, thrown,
                 extremaVars, diagramVars, appVars>>

\* SupportDofs with the rotation constrained at pinned supports too
SupportDofs_PinnedClamped(support, nodes) ==
  LET nodeIndex == indexOf(nodes, support.position) IN
  IF nodeIndex < 0 THEN {}
  ELSE (IF support.type \in {"fixed", "pinned"}
        THEN {nodeIndex * 2, nodeIndex * 2 + 1} ELSE {})
       \cup (IF support.type = "roller" THEN {nodeIndex * 2} ELSE {})

\* lines 128-138: the DOFs one support constrains
SupportDofs(support, nodes) ==
  LET nodeIndex == indexOf(nodes, support.position) IN
  IF nodeIndex < 0 THEN {}
  ELSE (IF support.type = "fixed" THEN {nodeIndex * 2, nodeIndex * 2 + 1} ELSE {})
       \cup (IF support.type \in {"pinned", "roller"} THEN {nodeIndex * 2} ELSE {})

\* lines 127-138
Constrained(sups, nodes) ==
  UNION {SupportDofs(sups[k], nodes) : k \in 1..Len(sups)}

\* the solver called whatever the number of free DOFs
SolveNeeded_Always(free) == TRUE

\* line 154: freeDofs.length > 0
SolveNeeded(free) == Len(free) > 0

\* lines 140-154: the partition, the reduced system, the call of the solver
ApplySupports ==
  /\ pc = "supports"
  /\ LET constrained == Constrained(supports, nodePositions)
         free == SortAsc((0..(dofCount - 1)) \ constrained)
         fixed == SortAsc((0..(dofCount - 1)) \cap constrained)
     IN  /\ freeDofs' = free
         /\ fixedDofs' = fixed
         /\ matrix' = [r \in 1..Len(free) |->
                         [c \in 1..Len(free) |-> K[free[r] + 1][free[c] + 1]]]
         /\ vector' = [r \in 1..Len(free) |-> F[free[r] + 1]]
  /\ pc' = IF SolveNeeded(freeDofs') THEN "solveCall" ELSE "recover"
  /\ freeDisplacements' = <<>>
  /\ ret' = "recover"
  /\ UNCHANGED <<inputVars, nodePositions, K, F, e, solverVars, resultVars,
                 thrown, extremaVars, diagramVars, appVars>>

\* K . d
MatVec(m, d) == [r \in 1..Len(m) |-> SumSeq([c \in 1..Len(m) |-> Mul(m[r][c], d[c])])]

\* lines 156-159
Scatter(n, free, values) ==
  [k \in 1..n |-> IF indexOf(free, k - 1) >= 0
                  THEN values[indexOf(free, k - 1) + 1] ELSE Zero]

\* F - K . d: the reactions with the sign reversed
Reactions_Reversed(KK, d, FF) ==
  LET Kd == MatVec(KK, d) IN [k \in 1..Len(FF) |-> Sub(FF[k], Kd[k])]

\* lines 161-163: K . d - F
Reactions(KK, d, FF) ==
  LET Kd == MatVec(KK, d) IN [k \in 1..Len(FF) |-> Sub(Kd[k], FF[k])]

\* lines 156-172
Recover ==
  /\ pc = "recover"
  /\ displacements' = Scatter(dofCount, freeDofs, freeDisplacements)
  /\ reactions' = Reactions(K, displacements', F)
  /\ pc' = "done"
  /\ UNCHANGED <<ret, inputVars, modelVars, matrix, vector, solverVars,
                 freeDisplacements, thrown, extremaVars, diagramVars, appVars>>

\* ------------------------------------- specification: assembleBeamModel
supportTypes == {"fixed", "pinned", "roller", "free"}
SeqsUpTo(S, n) == UNION {[1..k -> S] : k \in 0..n}
Positions(sp) == 0..sp
SupportsOf(sp) == [position : Positions(sp), type : supportTypes]
PointLoadsOf(sp) == [position : Positions(sp), magnitude : 0..MaxLoad]
UdlsOf(sp) == {u \in [start : Positions(sp), end : Positions(sp),
                      intensity : 0..MaxLoad] : u.start <= u.end}

NoInputs ==
  /\ span = 0 /\ E = Zero /\ I = Zero
  /\ supports = <<>> /\ pointLoads = <<>> /\ udls = <<>>

Idle ==
  /\ ret = "returned"
  /\ nodePositions = <<>> /\ K = <<>> /\ F = <<>> /\ e = 0
  /\ freeDofs = <<>> /\ fixedDofs = <<>>
  /\ matrix = <<>> /\ vector = <<>>
  /\ a = <<>> /\ b = <<>> /\ col = 0 /\ pivot = None
  /\ freeDisplacements = <<>> /\ displacements = <<>> /\ reactions = <<>>
  /\ thrown = "none"

NoExtrema == data = <<>> /\ key = "shear" /\ idx = 0 /\ acc = <<>>

NoDiagram == sample = 0 /\ results = <<>>

NoApp == state = <<>> /\ edits = 0

Init ==
  /\ pc = "start"
  /\ span \in 0..MaxSpan
  /\ E = Num(1)
  /\ I = buildSectionI(12, 1)
  /\ supports \in SeqsUpTo(SupportsOf(span), MaxSupports)
  /\ pointLoads \in SeqsUpTo(PointLoadsOf(span), MaxPointLoads)
  /\ udls \in SeqsUpTo(UdlsOf(span), MaxUdls)
  /\ Idle
  /\ NoExtrema
  /\ NoDiagram
  /\ NoApp

Next ==
  \/ BuildMesh
  \/ AssembleElement
  \/ ApplyPointLoads
  \/ ApplySupports
  \/ SolveEnter
  \/ SolveColumn
  \/ SolveReturn
  \/ Recover

Spec == Init /\ [][Next]_vars

\* ------------------------------------------ specification: the solver alone
Entries == {Num(n) : n \in (-MaxEntry)..MaxEntry}
SquareMatrices(n) == [1..n -> [1..n -> Entries]]
Vectors(n) == [1..n -> {Num(k) : k \in 0..MaxEntry}]

InitSolve ==
  /\ pc = "solveCall"
  /\ ret = "returned"
  /\ \E n \in 0..MaxSize :
       /\ matrix \in SquareMatrices(n)
       /\ vector \in Vectors(n)
  /\ NoInputs
  /\ nodePositions = <<>> /\ K = <<>> /\ F = <<>> /\ e = 0
  /\ freeDofs = <<>> /\ fixedDofs = <<>>
  /\ a = <<>> /\ b = <<>> /\ col = 0 /\ pivot = None
  /\ freeDisplacements = <<>> /\ displacements = <<>> /\ reactions = <<>>
  /\ thrown = "none"
  /\ NoExtrema
  /\ NoDiagram
  /\ NoApp

NextSolve == SolveEnter \/ SolveColumn \/ SolveReturn
SpecSolve == InitSolve /\ [][NextSolve]_vars

\* --------------------------------------------------------------- findExtrema
\* the callback of the reduce with <= and >= for < and >
ExtremaFold_NonStrict(accum, point, k) ==
  LET acc1 == IF point[k] <= accum.min
              THEN [accum EXCEPT !.min = point[k], !.minX = point.x] ELSE accum
  IN  IF point[k] >= acc1.max
      THEN [acc1 EXCEPT !.max = point[k], !.maxX = point.x] ELSE acc1

\* lines 254-264: the callback of the reduce
ExtremaFold(accum, point, k) ==
  LET acc1 == IF point[k] < accum.min
              THEN [accum EXCEPT !.min = point[k], !.minX = point.x] ELSE accum
  IN  IF point[k] > acc1.max
      THEN [acc1 EXCEPT !.max = point[k], !.maxX = point.x] ELSE acc1

\* lines 243-251 and 265-270: the default of an empty series, or the seed
ExtremaEnter ==
  /\ pc = "extremaCall"
  /\ IF Len(data) = 0
     THEN /\ acc' = [min |-> 0, minX |-> 0, max |-> 0, maxX |-> 0]
          /\ pc' = "extremaDone"
     ELSE /\ acc' = [min |-> data[1][key], minX |-> data[1].x,
                     max |-> data[1][key], maxX |-> data[1].x]
          /\ pc' = "extrema"
  /\ idx' = 0
  /\ UNCHANGED <<ret, inputVars, modelVars, matrix, vector, solverVars,
                 freeDisplacements, resultVars, thrown, data, key, diagramVars, appVars>>

\* lines 253-264: the reduce visits one point
ExtremaVisit ==
  /\ pc = "extrema"
  /\ idx < Len(data)
  /\ acc' = ExtremaFold(acc, data[idx + 1], key)
  /\ idx' = idx + 1
  /\ UNCHANGED <<pc, ret, inputVars, modelVars, matrix, vector, solverVars,
                 freeDisplacements, resultVars, thrown, data, key, diagramVars, appVars>>

\* line 253: the reduce returns the accumulator
ExtremaReturn ==
  /\ pc = "extrema"
  /\ idx >= Len(data)
  /\ pc' = "extremaDone"
  /\ UNCHANGED <<ret, inputVars, modelVars, matrix, vector, solverVars,
                 freeDisplacements, resultVars, thrown, extremaVars, diagramVars, appVars>>

\* ---------------------------------------------- specification: findExtrema
seriesKeys == {"shear", "moment", "deflection"}
Samples == [x : 0..MaxVal, shear : 0..MaxVal, moment : 0..MaxVal,
            deflection : 0..MaxVal]

InitExtrema ==
  /\ pc = "extremaCall"
  /\ data \in SeqsUpTo(Samples, MaxLen)
  /\ key \in seriesKeys
  /\ idx = 0
  /\ acc = <<>>
  /\ NoInputs
  /\ Idle
  /\ NoDiagram
  /\ NoApp

NextExtrema == ExtremaEnter \/ ExtremaVisit \/ ExtremaReturn
SpecExtrema == InitExtrema /\ [][NextExtrema]_vars

\* ----------------------- specification: the load vector of assembleBeamModel
InitLoads ==
  /\ pc = "start"
  /\ span \in 1..MaxSpan
  /\ E = Num(1)
  /\ I = buildSectionI(12, 1)
  /\ supports \in SeqsUpTo([position : Positions(span), type : {"pinned"}], 1)
  /\ pointLoads \in SeqsUpTo(PointLoadsOf(span), MaxPointLoads + 1)
  /\ udls \in SeqsUpTo(UdlsOf(span), MaxUdls + 1)
  /\ Idle
  /\ NoExtrema
  /\ NoDiagram
  /\ NoApp

NextLoads == BuildMesh \/ AssembleElement \/ ApplyPointLoads
SpecLoads == InitLoads /\ [][NextLoads]_vars

\* ------------------------------------------------------------- buildDiagram
\* lines 199-211: the end forces of the element, kLocal . localDisp - fixedEnd
localForces(kLocal, localDisp, fixedEnd) ==
  LET Kd == MatVec(kLocal, localDisp)
  IN  [i \in 1..4 |-> Sub(Kd[i], fixedEnd[i])]

\* lines 213-232 for one i: the sample at x = (i / n) . L of the element
SamplePoint(x1, L, localDisp, w, V1, M1, i, n) ==
  LET x == DivScalar(Mul(Num(i), Num(L)), Num(n))
      xi == DivScalar(x, Num(L))
      xi2 == Mul(xi, xi)
      xi3 == Mul(xi2, xi)
      N1 == Add(Sub(One, Mul(Num(3), xi2)), Mul(Num(2), xi3))
      N2 == Mul(Num(L), Add(Sub(xi, Mul(Num(2), xi2)), xi3))
      N3 == Sub(Mul(Num(3), xi2), Mul(Num(2), xi3))
      N4 == Mul(Num(L), Add(Neg(xi2), xi3))
  IN  [x |-> Add(Num(x1), x),
       deflection |-> Add(Add(Add(Mul(N1, localDisp[1]), Mul(N2, localDisp[2])),
                              Mul(N3, localDisp[3])), Mul(N4, localDisp[4])),
       shear |-> Sub(V1, Mul(w, x)),
       moment |-> Sub(Add(M1, Mul(V1, x)),
                      DivScalar(Mul(Mul(w, x), x), Num(2)))]

\* the inner loop with i < sample: the far end of the element is not sampled
ElementSamples_Exclusive(x1, L, localDisp, w, EE, II, n) ==
  LET forces == localForces(beamElementStiffness(EE, II, L), localDisp,
                            eqForces(w, L))
      pts == [i \in 1..n |->
                SamplePoint(x1, L, localDisp, w, forces[1], forces[2], i - 1, n)]
  IN  SubSeq(pts, 1, n)

\* lines 199-232: the samples i = 0..sample pushed for one element
ElementSamples(x1, L, localDisp, w, EE, II, n) ==
  LET forces == localForces(beamElementStiffness(EE, II, L), localDisp,
                            eqForces(w, L))
      pts == [i \in 1..(n + 1) |->
                SamplePoint(x1, L, localDisp, w, forces[1], forces[2], i - 1, n)]
  IN  SubSeq(pts, 1, n + 1)

\* lines 174-183, called at lines 401-411 with the results of
\* assembleBeamModel; `sample` is a parameter (80 when omitted)
DiagramEnter ==
  /\ pc = "done"
  /\ sample' \in 1..MaxSample
  /\ results' = <<>>
  /\ e' = 0
  /\ pc' = "diagram"
  /\ UNCHANGED <<ret, inputVars, nodePositions, K, F, freeDofs, fixedDofs, matrix,
                 vector, solverVars, freeDisplacements, resultVars, thrown,
                 extremaVars, appVars>>

\* lines 184-233: one pass of the element loop
DiagramElement ==
  /\ pc = "diagram"
  /\ e < nodeCount - 1
  /\ LET x1 == nodePositions[e + 1]
         x2 == nodePositions[e + 2]
         L == x2 - x1
         localDisp == SubSeq(displacements, 2 * e + 1, 2 * e + 4)
         w == udlForElement(udls, x1, x2)
     IN  IF L <= 0
         THEN UNCHANGED results
         ELSE results' = results \o ElementSamples(x1, L, localDisp, w, E, I, sample)
  /\ e' = e + 1
  /\ UNCHANGED <<pc, ret, inputVars, nodePositions, K, F, freeDofs, fixedDofs,
                 matrix, vector, solverVars, freeDisplacements, resultVars,
                 thrown, extremaVars, sample, appVars>>

\* lines 234-237: the last sample is moved to x = span
DiagramReturn ==
  /\ pc = "diagram"
  /\ e >= nodeCount - 1
  /\ results' = IF Len(results) > 0
                THEN [results EXCEPT ![Len(results)].x = Num(span)]
                ELSE results
  /\ pc' = "diagramDone"
  /\ UNCHANGED <<ret, inputVars, modelVars, matrix, vector, solverVars,
                 freeDisplacements, resultVars, thrown, extremaVars, sample,
                 appVars>>

\* ------------- specification: assembleBeamModel followed by buildDiagram
NextDiagram ==
  \/ BuildMesh
  \/ AssembleElement
  \/ ApplyPointLoads
  \/ ApplySupports
  \/ SolveEnter
  \/ SolveColumn
  \/ SolveReturn
  \/ Recover
  \/ DiagramEnter
  \/ DiagramElement
  \/ DiagramReturn

SpecDiagram == Init /\ [][NextDiagram]_vars

\* ----------------------------------------------------------------------- App
\* line 14, on exact numbers
MathMax(x, y) == IF Greater(y, x) THEN y ELSE x
MathMin(x, y) == IF Greater(x, y) THEN y ELSE x

\* Math.max(value, min): the upper limit is not applied
clamp_LowerOnly(value, min, max) == MathMax(value, min)

\* line 14
clamp(value, min, max) == MathMin(MathMax(value, min), max)

RECURSIVE InsertByKey(_, _, _)
\* x is placed behind every item whose key is not greater: the sort is stable
InsertByKey(s, x, k) ==
  IF s = <<>> THEN <<x>>
  ELSE IF Greater(Head(s)[k], x[k]) THEN <<x>> \o s
  ELSE <<Head(s)>> \o InsertByKey(Tail(s), x, k)

RECURSIVE SortByKey(_, _)
\* Array.prototype.sort with the comparator (a, b) => a[k] - b[k]
SortByKey(s, k) ==
  IF s = <<>> THEN <<>>
  ELSE InsertByKey(SortByKey(SubSeq(s, 1, Len(s) - 1), k), s[Len(s)], k)

\* lines 330-336
normalizeSupports(sups, sp) ==
  SortByKey([k \in 1..Len(sups) |->
               [sups[k] EXCEPT !.position = clamp(sups[k].position, Zero, sp)]],
            "position")

\* lines 338-344
normalizeLoads(loads, sp, k) ==
  SortByKey([n \in 1..Len(loads) |->
               [loads[n] EXCEPT ![k] = clamp(loads[n][k], Zero, sp)]],
            k)

\* lines 346-357
normalizeUdls(us, sp) ==
  SortByKey([k \in 1..Len(us) |->
               LET start == clamp(us[k].start, Zero, sp)
                   end == clamp(us[k].end, Zero, sp)
               IN  [us[k] EXCEPT !.start = MathMin(start, end),
                                 !.end = MathMax(start, end)]],
            "start")

\* lines 3-5
DEFAULT_SPAN == 2000
DEFAULT_E == 10000
DEFAULT_SECTION == [depth |-> 190, width |-> 45]

\* lines 320-326
initialSupports ==
  << [id |-> 1, position |-> Num(0), type |-> "pinned"],
     [id |-> 2, position |-> Num(1500), type |-> "roller"] >>
initialPointLoads == <<>>
initialUdls == << [id |-> 1, start |-> Num(0), end |-> Num(2000),
                   intensity |-> Rat(3, 2)] >>

\* the text of a number input: a sequence of characters, empty when the
\* field is empty or does not hold a number
decimalDigits == <<"0", "1", "2", "3", "4", "5", "6", "7", "8", "9">>
DigitValue(c) == (CHOOSE k \in 1..10 : decimalDigits[k] = c) - 1

RECURSIVE ParseDigits(_, _)
ParseDigits(cs, n) ==
  IF cs = <<>> THEN n ELSE ParseDigits(Tail(cs), 10 * n + DigitValue(Head(cs)))

\* Number(event.target.value) (lines 539, 596, 657, ...): "" gives 0
Number(text) ==
  IF text = <<>> THEN Zero
  ELSE IF Head(text) = "-" THEN Num(-ParseDigits(Tail(text), 0))
  ELSE Num(ParseDigits(text, 0))

\* what is typed into a number input
TypedTexts ==
  { <<>>, <<"-", "1", "0", "0">>, <<"1", "0", "0", "0">>, <<"2", "5", "0", "0">> }

\* Date.now(): past the initial ids and later at every click
DateNow == 3 + edits

ItemIds(items) == {items[k].id : k \in 1..Len(items)}

\* lines 457-471: items.map(item => item.id === id ? {...item, [key]: value} : item)
ChangeItem(items, id, k, value) ==
  [n \in 1..Len(items) |->
     IF items[n].id = id THEN [items[n] EXCEPT ![k] = value] ELSE items[n]]

\* lines 616-618, 676-678, 735: items.filter(item => item.id !== id)
RemoveItem(items, id) == SelectSeq(items, LAMBDA item : item.id # id)

\* lines 367-383 and 385-406: the arguments a render hands to
\* assembleBeamModel: the normalized lists, the point loads in N
Arguments(st) ==
  [span |-> st.span,
   E |-> Num(st.E),
   I |-> buildSectionI(st.section.width, st.section.depth),
   supports |-> normalizeSupports(st.supports, st.span),
   pointLoads |->
     LET loads == normalizeLoads(st.pointLoads, st.span, "position")
     IN  [k \in 1..Len(loads) |->
            [loads[k] EXCEPT !.magnitude = Mul(loads[k].magnitude, Num(1000))]],
   udls |-> normalizeUdls(st.udls, st.span)]

\* the render that follows a state change
Render(st) ==
  LET args == Arguments(st)
  IN  /\ span' = args.span
      /\ E' = args.E
      /\ I' = args.I
      /\ supports' = args.supports
      /\ pointLoads' = args.pointLoads
      /\ udls' = args.udls

\* one event handler followed by the render of the new state
Edit(st) ==
  /\ pc = "rendered"
  /\ edits < MaxEdits
  /\ state' = st
  /\ edits' = edits + 1
  /\ Render(st)
  /\ UNCHANGED <<pc, ret, modelVars, matrix, vector, solverVars,
                 freeDisplacements, resultVars, thrown, extremaVars, diagramVars>>

\* line 539
SetSpan ==
  \E text \in TypedTexts : Edit([state EXCEPT !.span = Number(text)])

\* lines 457-463, from the inputs of a support row (lines 589-611)
SupportChange ==
  \E id \in ItemIds(supports) :
    \/ \E text \in TypedTexts :
         Edit([state EXCEPT
                 !.supports = ChangeItem(@, id, "position", Number(text))])
    \/ \E option \in supportTypes :
         Edit([state EXCEPT !.supports = ChangeItem(@, id, "type", option)])

\* lines 473-477
AddSupport ==
  Edit([state EXCEPT
          !.supports = Append(@, [id |-> DateNow, position |-> state.span,
                                  type |-> "roller"])])

\* lines 612-621
RemoveSupport ==
  \E id \in ItemIds(supports) :
    Edit([state EXCEPT !.supports = RemoveItem(@, id)])

\* lines 465-471, from the inputs of a point-load row (lines 650-671)
PointLoadChange ==
  \E id \in ItemIds(pointLoads), k \in {"position", "magnitude"},
     text \in TypedTexts :
    Edit([state EXCEPT !.pointLoads = ChangeItem(@, id, k, Number(text))])

\* lines 479-483
AddPointLoad ==
  Edit([state EXCEPT
          !.pointLoads = Append(@, [id |-> DateNow,
                                    position |-> DivScalar(state.span, Num(2)),
                                    magnitude |-> Num(5)])])

\* lines 672-681
RemovePointLoad ==
  \E id \in ItemIds(pointLoads) :
    Edit([state EXCEPT !.pointLoads = RemoveItem(@, id)])

\* lines 465-471, from the inputs of a distributed-load row (lines 698-730)
UdlChange ==
  \E id \in ItemIds(udls), k \in {"start", "end", "intensity"},
     text \in TypedTexts :
    Edit([state EXCEPT !.udls = ChangeItem(@, id, k, Number(text))])

\* lines 485-489
AddUdl ==
  Edit([state EXCEPT
          !.udls = Append(@, [id |-> DateNow, start |-> Num(0),
                              end |-> state.span, intensity |-> Num(1)])])

\* lines 731-737
RemoveUdl ==
  \E id \in ItemIds(udls) :
    Edit([state EXCEPT !.udls = RemoveItem(@, id)])

\* -------------------------------- specification: the App under UI edits
\* lines 359-378: the first render of the initial state
initialState ==
  [span |-> Num(DEFAULT_SPAN), E |-> DEFAULT_E, section |-> DEFAULT_SECTION,
   supports |-> initialSupports, pointLoads |-> initialPointLoads,
   udls |-> initialUdls]

InitApp ==
  /\ pc = "rendered"
  /\ state = initialState
  /\ edits = 0
  /\ span = Arguments(initialState).span
  /\ E = Arguments(initialState).E
  /\ I = Arguments(initialState).I
  /\ supports = Arguments(initialState).supports
  /\ pointLoads = Arguments(initialState).pointLoads
  /\ udls = Arguments(initialState).udls
  /\ Idle
  /\ NoExtrema
  /\ NoDiagram

NextApp ==
  \/ SetSpan
  \/ SupportChange
  \/ AddSupport
  \/ RemoveSupport
  \/ PointLoadChange
  \/ AddPointLoad
  \/ RemovePointLoad
  \/ UdlChange
  \/ AddUdl
  \/ RemoveUdl

SpecApp == InitApp /\ [][NextApp]_vars

\* =================================================================== claims
AfterMesh == pc \in {"elements", "supports", "solveCall", "solve", "recover", "done"}
AfterLoads == pc \in {"supports", "solveCall", "solve", "recover", "done"}
AfterSupports == pc \in {"solveCall", "solve", "recover", "done"}
StrictlyIncreasing(s) == \A k \in 1..(Len(s) - 1) : s[k] < s[k + 1]

Breakpoints ==
  {0, span}
  \cup {supports[k].position : k \in 1..Len(supports)}
  \cup {pointLoads[k].position : k \in 1..Len(pointLoads)}
  \cup {udls[k].start : k \in 1..Len(udls)}
  \cup {udls[k].end : k \in 1..Len(udls)}

\* C1: for span > 0 the node list is strictly increasing (so free of
\* duplicates) and holds exactly 0, span, every support position, every
\* point-load position and every distributed-load start and end.
C1_MeshNodes ==
  (AfterMesh /\ span > 0) =>
    /\ StrictlyIncreasing(nodePositions)
    /\ Range(nodePositions) = Breakpoints

\* the case of the specification: a support inside the span, a load over all of it
C1_Witness ==
  /\ AfterMesh
  /\ span > 1
  /\ Len(supports) = 1 /\ supports[1].position \in 1..(span - 1)
  /\ pointLoads = <<>>
  /\ Len(udls) = 1 /\ udls[1].start = 0 /\ udls[1].end = span
  /\ nodePositions = <<0, supports[1].position, span>>

\* C2 (as claimed): a zero pivot makes the solve fail with an
\* UnderconstrainedSystem error, and a beam on a single roller raises that
\* error instead of returning displacements.
C2_SingularPivotFails ==
  /\ (pc = "solve" /\ col > 0 /\ IsZero(pivot)) => thrown = "UnderconstrainedSystem"
  /\ (pc = "done" /\ Len(supports) = 1 /\ supports[1].type = "roller")
       => thrown = "UnderconstrainedSystem"

C4_DofPartition ==
  AfterSupports =>
    /\ StrictlyIncreasing(freeDofs)
    /\ StrictlyIncreasing(fixedDofs)
    /\ Range(freeDofs) \cap Range(fixedDofs) = {}
    /\ Range(freeDofs) \cup Range(fixedDofs) = 0..(2 * nodeCount - 1)
    /\ \A n \in 0..(nodeCount - 1) :
         LET at == {k \in 1..Len(supports) : supports[k].position = nodePositions[n + 1]}
         IN  /\ (2 * n \in Range(fixedDofs)) <=>
                  (\E k \in at : supports[k].type \in {"fixed", "pinned", "roller"})
             /\ (2 * n + 1 \in Range(fixedDofs)) <=>
                  (\E k \in at : supports[k].type = "fixed")

\* a pinned and a free support share a node, another node is fixed
C4_Witness ==
  /\ AfterSupports
  /\ \E j, k \in 1..Len(supports) :
       /\ supports[j].type = "pinned" /\ supports[k].type = "free"
       /\ supports[j].position = supports[k].position
       /\ 2 * indexOf(nodePositions, supports[j].position) \in Range(fixedDofs)
       /\ 2 * indexOf(nodePositions, supports[j].position) + 1 \in Range(freeDofs)

\* ------------------------------------------------ reference definitions
\* the matrix without its first row and its column j
Minor(m, j) ==
  LET n == Len(m) - 1 IN
  SubSeq([r \in 1..n |->
            SubSeq([c \in 1..n |-> m[r + 1][IF c < j THEN c ELSE c + 1]], 1, n)],
         1, n)

RECURSIVE Det(_)
\* determinant, by expansion along the first row
Det(m) ==
  IF Len(m) = 0 THEN One
  ELSE SumSeq([j \in 1..Len(m) |->
         IF m[1][j] = Zero THEN Zero
         ELSE Mul(IF j % 2 = 1 THEN m[1][j] ELSE Neg(m[1][j]), Det(Minor(m, j)))])

Elements == 0..(nodeCount - 2)
ElementLength(el) == nodePositions[el + 2] - nodePositions[el + 1]
Covers(u, el) == u.start <= nodePositions[el + 1] /\ u.end >= nodePositions[el + 2]

RECURSIVE SumInts(_)
SumInts(s) == IF s = <<>> THEN 0 ELSE Head(s) + SumInts(Tail(s))

\* the length of the mesh elements a distributed load covers
CoveredLength(u) ==
  SumInts([k \in 1..(nodeCount - 1) |->
             IF Covers(u, k - 1) THEN ElementLength(k - 1) ELSE 0])

\* sum of the point loads plus intensity times covered length of the others
TotalLoad ==
  Num(SumInts([k \in 1..Len(pointLoads) |-> pointLoads[k].magnitude])
      + SumInts([k \in 1..Len(udls) |-> udls[k].intensity * CoveredLength(udls[k])]))

SupportedNodes ==
  {n \in 0..(nodeCount - 1) :
     \E k \in 1..Len(supports) : supports[k].position = nodePositions[n + 1]}

\* sum of the reactions at the vertical DOFs of the supported nodes
VerticalReactionSum ==
  SumSeq([k \in 1..nodeCount |->
            IF (k - 1) \in SupportedNodes THEN reactions[2 * (k - 1) + 1] ELSE Zero])

Stable == Det(matrix) # Zero

\* C5 (as claimed): in a stable configuration the vertical reactions sum to
\* the applied load, with the same sign.
C5_ReactionsEqualLoad ==
  (pc = "done" /\ span > 0 /\ Stable) => VerticalReactionSum = TotalLoad

\* C5 (amended): in a stable configuration the vertical reactions sum to
\* minus the applied load (loads are downward positive, reactions = K.d - F
\* come out negative when they act upwards).
C5_ReactionsBalanceLoad ==
  (pc = "done" /\ Stable) => VerticalReactionSum = Neg(TotalLoad)

\* a beam on two distinct supports under a point load and a distributed load
C5_Witness ==
  /\ pc = "done"
  /\ Stable
  /\ Len(supports) = 2 /\ supports[1].type = "pinned" /\ supports[2].type = "roller"
  /\ Len(pointLoads) = 1 /\ pointLoads[1].magnitude > 0
  /\ Len(udls) = 1 /\ udls[1].intensity > 0 /\ udls[1].start < udls[1].end
  /\ VerticalReactionSum # Zero

NoLoad ==
  /\ \A k \in 1..Len(pointLoads) : pointLoads[k].magnitude = 0
  /\ \A k \in 1..Len(udls) : udls[k].intensity = 0

\* C6: without load (no load at all, or only zero magnitudes and
\* intensities) every displacement and every reaction is zero, whatever the
\* supports.
C6_ZeroLoadZeroResponse ==
  (pc = "done" /\ NoLoad) =>
    /\ \A k \in 1..Len(displacements) : displacements[k] = Zero
    /\ \A k \in 1..Len(reactions) : reactions[k] = Zero

\* a stable beam with free DOFs, carrying loads of magnitude and intensity 0
C6_Witness ==
  /\ pc = "done"
  /\ NoLoad
  /\ pointLoads # <<>> /\ udls # <<>>
  /\ Stable
  /\ Len(freeDofs) > 2
  /\ Len(displacements) = dofCount

\* C8 (as claimed): a request with span <= 0 is answered with an
\* InvalidGeometry failure, never with a result.
C8_InvalidGeometryRaised ==
  (pc = "done" /\ span <= 0) => thrown = "InvalidGeometry"

\* C7: on a non-empty series findExtrema returns the least and the greatest
\* value of the key, each with the x of the first point that attains it; on
\* an empty series it returns {min: 0, minX: 0, max: 0, maxX: 0}.
C7_Extrema ==
  pc = "extremaDone" =>
    IF data = <<>>
    THEN acc = [min |-> 0, minX |-> 0, max |-> 0, maxX |-> 0]
    ELSE LET n == Len(data)
             least == CHOOSE k \in 1..n :
                        /\ \A j \in 1..n : data[k][key] <= data[j][key]
                        /\ \A j \in 1..(k - 1) : data[j][key] # data[k][key]
             greatest == CHOOSE k \in 1..n :
                        /\ \A j \in 1..n : data[k][key] >= data[j][key]
                        /\ \A j \in 1..(k - 1) : data[j][key] # data[k][key]
         IN  acc = [min |-> data[least][key], minX |-> data[least].x,
                    max |-> data[greatest][key], maxX |-> data[greatest].x]

\* the least value occurs twice, at different x, and the first one is kept
C7_Witness ==
  /\ pc = "extremaDone"
  /\ Len(data) >= 2
  /\ data[1][key] = data[2][key]
  /\ data[1].x # data[2].x
  /\ acc.min = data[1][key]
  /\ acc.minX = data[1].x

\* C9, the result: for a non-singular matrix the returned x satisfies A.x = b.
C9_Solution ==
  (pc = "returned" /\ Det(matrix) # Zero) =>
    /\ Len(freeDisplacements) = Len(vector)
    /\ MatVec(matrix, freeDisplacements) = vector

\* C9, the pivot: in column i the pivot row is the lowest row among
\* i..size-1 with the largest |a[k][i]|; it is moved to row i together with
\* its right-hand side, and the row that was at i takes its place.
C9_PivotStep ==
  (pc = "solve" /\ col < Len(b) /\ col' = col + 1 /\ Det(matrix) # Zero) =>
    LET i == col
        rows == i..(Len(b) - 1)
        best == CHOOSE r \in rows :
                  /\ \A k \in rows : ~Greater(Abs(a[k + 1][i + 1]), Abs(a[r + 1][i + 1]))
                  /\ \A k \in i..(r - 1) : Greater(Abs(a[r + 1][i + 1]), Abs(a[k + 1][i + 1]))
        p == a[best + 1][i + 1]
    IN  /\ p # Zero
        /\ pivot' = p
        /\ \A j \in (i + 1)..Len(b) : a'[i + 1][j] = DivScalar(a[best + 1][j], p)
        /\ b'[i + 1] = DivScalar(b[best + 1], p)
        /\ best # i =>
             /\ \A j \in (i + 1)..Len(b) :
                  a'[best + 1][j] = Sub(a[i + 1][j], Mul(a[i + 1][i + 1], a'[i + 1][j]))
             /\ b'[best + 1] = Sub(b[i + 1], Mul(a[i + 1][i + 1], b'[i + 1]))

\* C9: solveLinearSystem solves A.x = b for every non-singular A by
\* elimination with partial pivoting (largest magnitude, lowest row on ties,
\* rows and right-hand side swapped together) and leaves the caller's A and b
\* unchanged.
C9_Solve ==
  /\ []C9_Solution
  /\ [][C9_PivotStep /\ matrix' = matrix /\ vector' = vector]_vars

\* a non-singular system whose first column needs a row swap
C9_Witness ==
  /\ pc = "returned"
  /\ Len(vector) >= 2
  /\ Det(matrix) # Zero
  /\ matrix[1][1] = Zero
  /\ vector # ZeroVector(Len(vector))
  /\ MatVec(matrix, freeDisplacements) = vector
  /\ a # matrix

\* the intensity an element carries: the loads that contain it entirely
ReferenceW(el) ==
  SumInts([k \in 1..Len(udls) |-> IF Covers(udls[k], el) THEN udls[k].intensity ELSE 0])

\* the load vector, DOF by DOF (d is 0-based; node n = d \div 2)
ReferenceF(d) ==
  LET n == d \div 2
      left == n - 1
      right == n
      hasLeft == n >= 1
      hasRight == n <= nodeCount - 2
      wl == IF hasLeft THEN ReferenceW(left) ELSE 0
      wr == IF hasRight THEN ReferenceW(right) ELSE 0
      Ll == IF hasLeft THEN ElementLength(left) ELSE 0
      Lr == IF hasRight THEN ElementLength(right) ELSE 0
      points == SumInts([k \in 1..Len(pointLoads) |->
                  IF pointLoads[k].position = nodePositions[n + 1]
                  THEN pointLoads[k].magnitude ELSE 0])
  IN  IF d % 2 = 0
      THEN Add(Num(points), Add(Rat(wl * Ll, 2), Rat(wr * Lr, 2)))
      ELSE Sub(Rat(wr * Lr * Lr, 12), Rat(wl * Ll * Ll, 12))

\* C10: F is the reference load vector: per element the equivalent nodal
\* loads of the distributed loads that contain it entirely, plus every point
\* load on the vertical DOF of the node at its position (each finds a node).
C10_LoadVector ==
  AfterLoads =>
    /\ Len(F) = dofCount
    /\ \A d \in 0..(dofCount - 1) : F[d + 1] = ReferenceF(d)
    /\ \A k \in 1..Len(pointLoads) : indexOf(nodePositions, pointLoads[k].position) >= 0

\* two point loads on one node, two distributed loads sharing an element,
\* one of them not reaching the next element
C10_Witness ==
  /\ AfterLoads
  /\ Len(pointLoads) = 2
  /\ pointLoads[1].position = pointLoads[2].position
  /\ pointLoads[1].magnitude > 0 /\ pointLoads[2].magnitude > 0
  /\ Len(udls) = 2
  /\ udls[1].intensity > 0 /\ udls[2].intensity > 0
  /\ \E el \in Elements : Covers(udls[1], el) /\ Covers(udls[2], el)
  /\ \E el \in Elements : Covers(udls[1], el) /\ ~Covers(udls[2], el)
  /\ F[2 * indexOf(nodePositions, pointLoads[1].position) + 1]
       = ReferenceF(2 * indexOf(nodePositions, pointLoads[1].position))

MeshBuilt == pc # "start"

\* the element loop of assembleBeamModel took a pass
AssemblePass == pc = "elements" /\ e' = e + 1

\* the element loop of buildDiagram took a pass
DiagramPass == pc = "diagram" /\ e' = e + 1

C11_PositiveLengths ==
  /\ MeshBuilt => \A el \in Elements : ElementLength(el) > 0
  /\ pc = "supports" => e = nodeCount - 1
  /\ pc = "diagramDone" =>
       /\ e = nodeCount - 1
       /\ Len(results) = (nodeCount - 1) * (sample + 1)

C11_EveryPassContributes ==
  /\ AssemblePass => ElementLength(e) > 0 /\ K' # K
  /\ DiagramPass => ElementLength(e) > 0 /\ Len(results') = Len(results) + sample + 1

\* C11: on the mesh of assembleBeamModel every element has length > 0, so
\* neither element loop takes its `L <= 0` skip: each of the nodeCount - 1
\* passes of assembleBeamModel adds a stiffness to K, each pass of
\* buildDiagram pushes sample + 1 samples, and the diagram ends with
\* (nodeCount - 1) * (sample + 1) samples.
C11_NoElementSkipped ==
  /\ []C11_PositiveLengths
  /\ [][C11_EveryPassContributes]_vars

\* a diagram of two elements whose inputs name one position twice
C11_Witness ==
  /\ pc = "diagramDone"
  /\ nodeCount = 3
  /\ sample = MaxSample
  /\ Len(results) = 2 * (sample + 1)
  /\ Len(supports) = 2
  /\ supports[1].position = supports[2].position
  /\ Len(udls) = 1
  /\ udls[1].start = udls[1].end

\* the element lies inside the load or meets it in one point at most
NotPartiallyCovered(u, el) ==
  \/ Covers(u, el)
  \/ u.end <= nodePositions[el + 1]
  \/ u.start >= nodePositions[el + 2]

\* the sum of the entries of F on the vertical DOFs
VerticalLoadSum == SumSeq([n \in 1..nodeCount |-> F[2 * (n - 1) + 1]])

\* the point-load magnitudes plus intensity times length of the others
AppliedLoad ==
  Num(SumInts([k \in 1..Len(pointLoads) |-> pointLoads[k].magnitude])
      + SumInts([k \in 1..Len(udls) |->
                   udls[k].intensity * (udls[k].end - udls[k].start)]))

\* C13: the start and the end of every distributed load are mesh nodes, so
\* no element is partially overlapped by a distributed load, and the
\* vertical entries of F add up to the sum of the point-load magnitudes plus
\* the sum of intensity * (end - start) over the distributed loads.
C13_NoPartialOverlap ==
  AfterLoads =>
    /\ \A k \in 1..Len(udls) :
         /\ indexOf(nodePositions, udls[k].start) >= 0
         /\ indexOf(nodePositions, udls[k].end) >= 0
         /\ \A el \in Elements : NotPartiallyCovered(udls[k], el)
    /\ VerticalLoadSum = AppliedLoad

\* a load over two elements, a load that meets an element in one point,
\* and a point load
C13_Witness ==
  /\ AfterLoads
  /\ nodeCount = 3
  /\ Len(udls) = 2
  /\ udls[1].intensity > 0 /\ udls[2].intensity > 0
  /\ Covers(udls[1], 0) /\ Covers(udls[1], 1)
  /\ udls[2].start = nodePositions[2] /\ udls[2].end > udls[2].start
  /\ ~Covers(udls[2], 0)
  /\ Len(pointLoads) = 1 /\ pointLoads[1].magnitude > 0
  /\ VerticalLoadSum = AppliedLoad
  /\ VerticalLoadSum # Zero

InSpan(x) == ~Greater(Zero, x) /\ ~Greater(x, span)
SortedBy(items, k) ==
  \A n \in 1..(Len(items) - 1) : ~Greater(items[n][k], items[n + 1][k])

\* C12: after any UI edits that leave span > 0, every support position,
\* point-load position and distributed-load start and end handed to
\* assembleBeamModel lies in [0, span], every distributed load has
\* start <= end, each list is sorted by position or start, no item is
\* dropped, and no error is raised.
C12_ArgumentsNormalized ==
  (pc = "rendered" /\ Greater(span, Zero)) =>
    /\ \A k \in 1..Len(supports) : InSpan(supports[k].position)
    /\ \A k \in 1..Len(pointLoads) : InSpan(pointLoads[k].position)
    /\ \A k \in 1..Len(udls) :
         /\ InSpan(udls[k].start) /\ InSpan(udls[k].end)
         /\ ~Greater(udls[k].start, udls[k].end)
    /\ SortedBy(supports, "position")
    /\ SortedBy(pointLoads, "position")
    /\ SortedBy(udls, "start")
    /\ Len(supports) = Len(state.supports)
    /\ Len(pointLoads) = Len(state.pointLoads)
    /\ Len(udls) = Len(state.udls)
    /\ thrown = "none"

\* the state holds a support beyond the span, ahead of a support inside it,
\* and a distributed load whose start is behind its end
C12_Witness ==
  /\ pc = "rendered"
  /\ edits > 0
  /\ Greater(span, Zero)
  /\ Len(state.supports) = 2
  /\ Greater(state.supports[1].position, state.span)
  /\ Greater(state.span, state.supports[2].position)
  /\ supports[2].position = span
  /\ supports[2].id = state.supports[1].id
  /\ Len(state.udls) = 1
  /\ Greater(state.udls[1].start, state.udls[1].end)
  /\ udls[1].start = state.udls[1].end
  /\ udls[1].end = state.udls[1].start
  /\ Greater(udls[1].end, udls[1].start)

====
